---- MODULE Spec2Model ----
(***************************************************************************)
(* komm/algebra.py: binary polynomials (GF(2)[X]) packed into integers,    *)
(* the finite extension fields GF(2^k) built on them with their memoized   *)
(* multiply / inverse / logarithm, and row reduction of binary matrices.   *)
(*                                                                         *)
(* Three groups of state, one per part of the file:                        *)
(*   polynomial ring : the long-division loop of __divmod__, and xgcd      *)
(*   extension field : the constructed field instances, the three          *)
(*                     lru_cache tables, and the last call's outcome       *)
(*   linear algebra  : the matrix handed to rref / xrref / right_inverse / *)
(*                     null_matrix and what the call produced              *)
(* A Python exception is modelled as the outcome: a record or a string     *)
(* naming the exception class instead of a value.                          *)
(*                                                                         *)
(* __divmod__ is also wrapped in lru_cache (line 140).  Its key is the     *)
(* exact pair of integers (dividend, divisor) compared with int equality,  *)
(* and the function reads nothing else, so the table is not kept as state: *)
(* divmod below is the computation a miss performs.  The caches of the     *)
(* field methods, whose keys hold objects with their own __eq__/__hash__,  *)
(* are state (mulCache, invCache, logCache).                               *)
(***************************************************************************)
EXTENDS Integers, Sequences, FiniteSets, TLC

VARIABLES
    pc,        \* polynomial ring: "idle" | "loop" | "done" | "xdone"
    num,       \* __divmod__: self, the dividend
    den,       \* __divmod__: den, the divisor
    div,       \* __divmod__: local div
    mod,       \* __divmod__: local mod
    d,         \* __divmod__: local d
    xg,        \* xgcd: the last top-level call, [x, y, res]
    fields,    \* the field instances constructed so far: id -> [degree, modulus]
    mulCache,  \* lru_cache of multiply : key -> returned element
    invCache,  \* lru_cache of inverse  : key -> returned element
    logCache,  \* lru_cache of logarithm: key -> returned int
    ret,       \* the last field call and its outcome
    ncalls,    \* number of field calls made so far
    M,         \* linear algebra: the input matrix (a sequence of rows)
    out        \* linear algebra: the last call and its outcome

polyVars == <<pc, num, den, div, mod, d, xg>>
fieldVars == <<fields, mulCache, invCache, logCache, ret, ncalls>>
matVars == <<M, out>>
vars == <<pc, num, den, div, mod, d, xg, fields, mulCache, invCache, logCache, ret, ncalls, M, out>>

None == "None"

\* ------------------------------------------------------------------ bounds

\* Polynomials handed to __divmod__ and xgcd are 0 .. 2^MaxBits - 1.
MaxBits == 5

Polys == 0 .. (2 ^ MaxBits - 1)

\* ------------------------------------------------------- integers as bits

Max(a, b) == IF a >= b THEN a ELSE b

RECURSIVE bit_length(_)
bit_length(n) == IF n = 0 THEN 0 ELSE 1 + bit_length(n \div 2)

\* int.__xor__
RECURSIVE xor(_, _)
xor(a, b) ==
    IF a = 0 THEN b
    ELSE IF b = 0 THEN a
    ELSE (((a % 2) + (b % 2)) % 2) + (2 * xor(a \div 2, b \div 2))

\* int.__lshift__
lshift(a, n) == a * (2 ^ n)

\* util.int2binlist(int_, width=None): little-endian bits, the natural width
\* (at least one bit) when no width is given.
int2binlist(n) == [i \in 1 .. Max(bit_length(n), 1) |-> (n \div (2 ^ (i - 1))) % 2]

\* util.binlist2int: the integer of a little-endian bit sequence.
RECURSIVE binlist2int(_)
binlist2int(bits) ==
    IF Len(bits) = 0 THEN 0 ELSE Head(bits) + (2 * binlist2int(Tail(bits)))

\* ------------------------------------------------------- BinaryPolynomial

degree(p) == bit_length(p) - 1

coefficients(p) == int2binlist(p)

from_coefficients(c) == binlist2int(c)

\* __add__ and __sub__ are both int.__xor__
add(a, b) == xor(a, b)

sub(a, b) == xor(a, b)

\* np.convolve(a, v): entry k is the sum of a[i] * v[k - i]; the entries are
\* 0 or 1, so the sum counts the index pairs where both are 1.
convolve(a, v) ==
    [k \in 1 .. (Len(a) + Len(v) - 1) |->
        Cardinality({i \in 1 .. Len(a) :
            /\ k + 1 - i >= 1
            /\ k + 1 - i <= Len(v)
            /\ a[i] = 1
            /\ v[k + 1 - i] = 1})]

\* __mul__
mul(a, b) ==
    LET c == convolve(coefficients(a), coefficients(b))
    IN  from_coefficients([k \in 1 .. Len(c) |-> c[k] % 2])

\* __divmod__, line 143 and 147: d = mod.bit_length() - den.bit_length()
shiftOf(md, dn) == bit_length(md) - bit_length(dn)

\* __divmod__, line 144: while d >= 0
loopCond(dd) == dd >= 0

stepDivShifted(dv, dd) == add(dv, lshift(1, dd + 1))

\* __divmod__, line 145: div += (1 << d)
stepDiv(dv, dd) == add(dv, lshift(1, dd))

\* __divmod__, line 146: mod += (den << d)
stepMod(md, dn, dd) == add(md, lshift(dn, dd))

\* __divmod__ as a function: the loop run to its end.  Defined for den # 0
\* only (with den = 0 the loop does not end, see DivmodIter).
RECURSIVE divmodLoop(_, _, _)
divmodLoop(dv, md, dn) ==
    LET dd == shiftOf(md, dn)
    IN  IF loopCond(dd)
        THEN divmodLoop(stepDiv(dv, dd), stepMod(md, dn, dd), dn)
        ELSE <<dv, md>>

divmod(a, b) == divmodLoop(0, a, b)

floordiv(a, b) == divmod(a, b)[1]

modulo(a, b) == divmod(a, b)[2]

xgcdCombineSwapped(x, y, r) == <<r[1], r[2], sub(r[3], mul(r[2], floordiv(y, x)))>>

\* xgcd, line 419: return d, t - s * (y // x), s
xgcdCombine(x, y, r) == <<r[1], sub(r[3], mul(r[2], floordiv(y, x))), r[2]>>

\* xgcd(ring, x, y) with ring = BinaryPolynomial
RECURSIVE xgcd(_, _)
xgcd(x, y) ==
    IF x = 0 THEN <<y, 0, 1>>
    ELSE xgcdCombine(x, y, xgcd(modulo(y, x), x))

\* ------------------------------------------- polynomial ring: the actions

PolyIdle ==
    /\ pc = "idle"
    /\ num = 0
    /\ den = 0
    /\ div = 0
    /\ mod = 0
    /\ d = 0
    /\ xg = None

\* a.__divmod__(b): lines 142-143
DivmodCall(a, b) ==
    /\ pc = "idle"
    /\ num' = a
    /\ den' = b
    /\ div' = 0
    /\ mod' = a
    /\ d' = shiftOf(a, b)
    /\ pc' = "loop"
    /\ xg' = None

\* one pass of the while loop: lines 144-147
DivmodIter ==
    /\ pc = "loop"
    /\ loopCond(d)
    /\ div' = stepDiv(div, d)
    /\ mod' = stepMod(mod, den, d)
    /\ d' = shiftOf(stepMod(mod, den, d), den)
    /\ UNCHANGED <<pc, num, den, xg>>

\* the loop condition fails: line 148, return div, mod
DivmodReturn ==
    /\ pc = "loop"
    /\ ~loopCond(d)
    /\ pc' = "done"
    /\ UNCHANGED <<num, den, div, mod, d, xg>>

\* BinaryPolynomial.xgcd(x, y): lines 185-190 and 410-419.  With x = y = 0
\* the base case answers at once; otherwise every division is by x # 0.
XgcdCall(x, y) ==
    /\ pc = "idle"
    /\ xg' = [x |-> x, y |-> y, res |-> xgcd(x, y)]
    /\ pc' = "xdone"
    /\ num' = 0
    /\ den' = 0
    /\ div' = 0
    /\ mod' = 0
    /\ d' = 0

FieldIdle ==
    /\ fields = <<>>
    /\ mulCache = <<>>
    /\ invCache = <<>>
    /\ logCache = <<>>
    /\ ret = [op |-> "none"]
    /\ ncalls = 0

MatIdle ==
    /\ M = <<>>
    /\ out = [op |-> "none"]

PolyInit == PolyIdle /\ FieldIdle /\ MatIdle

PolyNext ==
    \/ \E a \in Polys, b \in Polys : DivmodCall(a, b) /\ UNCHANGED <<fieldVars, matVars>>
    \/ DivmodIter /\ UNCHANGED <<fieldVars, matVars>>
    \/ DivmodReturn /\ UNCHANGED <<fieldVars, matVars>>
    \/ \E x \in Polys, y \in Polys : XgcdCall(x, y) /\ UNCHANGED <<fieldVars, matVars>>

SpecPoly == PolyInit /\ [][PolyNext]_vars

\* ------------------------------------------------------------------ claims

\* C1: for every a and every nonzero b, divmod(a, b) returns (q, r) with
\* a = b*q + r (ring multiplication, XOR addition) and degree(r) < degree(b),
\* the zero polynomial having degree -1.
C1_DivisionIdentity ==
    (pc = "done" /\ den # 0) =>
        /\ num = add(mul(den, div), mod)
        /\ degree(mod) < degree(den)

\* A division that took at least one pass and left a nonzero remainder.
C1_Witness ==
    /\ pc = "done"
    /\ den # 0
    /\ div # 0
    /\ mod # 0
    /\ num = add(mul(den, div), mod)

\* C2: for all nonzero x and y, xgcd(x, y) returns (d, s, t) with
\* d = s*x + t*y in GF(2)[X], and d divides both x and y.
C2_Bezout ==
    (pc = "xdone" /\ xg.x # 0 /\ xg.y # 0) =>
        /\ xg.res[1] = add(mul(xg.res[2], xg.x), mul(xg.res[3], xg.y))
        /\ xg.res[1] # 0
        /\ modulo(xg.x, xg.res[1]) = 0
        /\ modulo(xg.y, xg.res[1]) = 0

\* A call that recursed, with a gcd that is not a unit and both Bezout
\* coefficients nonzero.
C2_Witness ==
    /\ pc = "xdone"
    /\ xg.x # 0
    /\ xg.y # 0
    /\ xg.res[1] > 1
    /\ xg.res[2] # 0
    /\ xg.res[3] # 0
    /\ xg.res[1] = add(mul(xg.res[2], xg.x), mul(xg.res[3], xg.y))

\* C9: the long-division loop terminates for every dividend and divisor:
\* each pass of the loop strictly decreases the remainder's degree.
C9_DegreeDecreases == [][DivmodIter => degree(mod') < degree(mod)]_vars

\* ------------------------------------------- BinaryFiniteExtensionField

\* Fields are constructed with a degree in 1 .. MaxDegree.
MaxDegree == 4

\* Calls made on the instances of the cache scenario (CacheInit).
MaxCalls == 2

\* __init__, lines 260-276: the default modulus of each degree 1 .. 16
PRIMITIVE_POLYNOMIALS ==
    <<3, 7, 11, 19, 37, 67, 137, 285, 529, 1033, 2053, 4179, 8219, 17475, 32771, 69643>>

\* The optional argument modulus of __init__: absent (None), or an integer.
NoModulus == [given |-> FALSE]

Modulus(m) == [given |-> TRUE, val |-> m]

\* __init__, lines 259-279: the modulus the instance keeps
initModulus(k, m) == IF m.given THEN m.val ELSE PRIMITIVE_POLYNOMIALS[k]

\* order, line 309
order(f) == 2 ^ fields[f].degree

\* __call__, lines 376-382: an element is its int value and the instance
\* that made it
Element(f, v) == [value |-> v, field |-> f]

\* primitive_element, line 317
primitive_element(f) == Element(f, 2)

\* _Element.__eq__ / __hash__, lines 390-391: an element is compared and
\* hashed as (int value, modulus of its field)
elemKey(e) == <<e.value, fields[e.field].modulus>>

elemEq(a, b) == elemKey(a) = elemKey(b)

mulKeyNoInstance(f, x, y) == <<0, elemKey(x), elemKey(y)>>

\* lru_cache key of multiply(self, x, y), line 319: the instance (hashed by
\* identity, the class defines no __eq__) and the two operands
mulKey(f, x, y) == <<f, elemKey(x), elemKey(y)>>

\* lru_cache key of inverse(self, x), line 323
invKey(f, x) == <<f, elemKey(x)>>

\* lru_cache key of logarithm(self, x), line 331, called with the default base
logKey(f, x) == <<f, elemKey(x)>>

multiplyNoReduce(f, x, y) == Element(f, mul(x.value, y.value))

\* multiply, line 321: the body, run on a cache miss
multiplyRaw(f, x, y) ==
    Element(f, modulo(mul(x.value, y.value), fields[f].modulus))

inverseUnchecked(f, x) ==
    [ok |-> TRUE, val |-> Element(f, xgcd(x.value, fields[f].modulus)[2])]

\* inverse, lines 325-329: the body, run on a cache miss
inverseRaw(f, x) ==
    LET r == xgcd(x.value, fields[f].modulus)
    IN  IF r[1] = 1
        THEN [ok |-> TRUE, val |-> Element(f, r[2])]
        ELSE [ok |-> FALSE, err |-> "ZeroDivisionError"]

\* A memoized call of multiply on table c: a hit returns the stored element,
\* a miss runs the body and stores what it returns.  Each entry also records
\* the instance whose call stored it (by).
multiplyMemo(c, f, x, y) ==
    LET key == mulKey(f, x, y)
    IN  IF key \in DOMAIN c
        THEN [val |-> c[key].val, cache |-> c, hit |-> TRUE, by |-> c[key].by]
        ELSE LET v == multiplyRaw(f, x, y)
             IN  [val |-> v, cache |-> c @@ (key :> [val |-> v, by |-> f]),
                  hit |-> FALSE, by |-> f]

\* power(ring, x, n), lines 422-434, with ring a field: x * x is
\* _Element.__mul__, line 394, which is x.field.multiply(x, x), memoized
RECURSIVE power(_, _, _, _)
power(c, f, x, n) ==
    IF n = 0 THEN [val |-> Element(f, 1), cache |-> c]
    ELSE IF n = 1 THEN [val |-> x, cache |-> c]
    ELSE LET sq == multiplyMemo(c, x.field, x, x)
             p == power(sq.cache, f, sq.val, n \div 2)
         IN  IF n % 2 = 0
             THEN [val |-> p.val, cache |-> p.cache]
             ELSE LET m == multiplyMemo(p.cache, x.field, x, p.val)
                  IN  [val |-> m.val, cache |-> m.cache]

\* logarithm, lines 333-338: the body with the default base; base**i is
\* _Element.__pow__, line 398, then field.power, line 344
RECURSIVE logarithmLoop(_, _, _, _)
logarithmLoop(c, f, x, i) ==
    IF i >= order(f) THEN [val |-> -1, cache |-> c]
    ELSE LET p == power(c, f, primitive_element(f), i)
         IN  IF elemEq(p.val, x)
             THEN [val |-> i, cache |-> p.cache]
             ELSE logarithmLoop(p.cache, f, x, i + 1)

logarithmRaw(c, f, x) == logarithmLoop(c, f, x, 0)

\* ------------------------------------------- extension field: the actions

\* BinaryFiniteExtensionField(k, m), lines 256-281.  The assertion of line
\* 281 fails when the modulus is not of degree k: no instance is made.
Construct(k, m) ==
    /\ ret.op = "none"
    /\ IF degree(initModulus(k, m)) = k
       THEN /\ fields' = Append(fields, [degree |-> k, modulus |-> initModulus(k, m)])
            /\ ret' = [op |-> "construct", ok |-> TRUE]
       ELSE /\ fields' = fields
            /\ ret' = [op |-> "construct", ok |-> FALSE, err |-> "AssertionError"]
    /\ UNCHANGED <<mulCache, invCache, logCache, ncalls>>

\* field f: multiply(x, y), lines 319-321
Multiply(f, x, y) ==
    LET r == multiplyMemo(mulCache, f, x, y)
    IN  /\ mulCache' = r.cache
        /\ ret' = [op |-> "multiply", f |-> f, x |-> x, y |-> y, ok |-> TRUE,
                   val |-> r.val, hit |-> r.hit, by |-> r.by]
        /\ ncalls' = ncalls + 1
        /\ UNCHANGED <<fields, invCache, logCache>>

\* field f: inverse(x), lines 323-329.  lru_cache stores nothing when the
\* body raises.
Inverse(f, x) ==
    LET key == invKey(f, x)
        r == inverseRaw(f, x)
    IN  /\ IF key \in DOMAIN invCache
           THEN /\ invCache' = invCache
                /\ ret' = [op |-> "inverse", f |-> f, x |-> x, ok |-> TRUE,
                           val |-> invCache[key].val, hit |-> TRUE,
                           by |-> invCache[key].by]
           ELSE IF r.ok
           THEN /\ invCache' = invCache @@ (key :> [val |-> r.val, by |-> f])
                /\ ret' = [op |-> "inverse", f |-> f, x |-> x, ok |-> TRUE,
                           val |-> r.val, hit |-> FALSE, by |-> f]
           ELSE /\ invCache' = invCache
                /\ ret' = [op |-> "inverse", f |-> f, x |-> x, ok |-> FALSE,
                           err |-> r.err, hit |-> FALSE, by |-> f]
        /\ ncalls' = ncalls + 1
        /\ UNCHANGED <<fields, mulCache, logCache>>

\* field f: logarithm(x), lines 331-338.  On a miss the body multiplies
\* through the memoized multiply, so mulCache grows too.
Logarithm(f, x) ==
    LET key == logKey(f, x)
        r == logarithmRaw(mulCache, f, x)
    IN  /\ IF key \in DOMAIN logCache
           THEN /\ logCache' = logCache
                /\ mulCache' = mulCache
                /\ ret' = [op |-> "logarithm", f |-> f, x |-> x, ok |-> TRUE,
                           val |-> logCache[key].val, hit |-> TRUE,
                           by |-> logCache[key].by]
           ELSE /\ logCache' = logCache @@ (key :> [val |-> r.val, by |-> f])
                /\ mulCache' = r.cache
                /\ ret' = [op |-> "logarithm", f |-> f, x |-> x, ok |-> TRUE,
                           val |-> r.val, hit |-> FALSE, by |-> f]
        /\ ncalls' = ncalls + 1
        /\ UNCHANGED <<fields, invCache>>

\* The elements of instance f: field(v) for v < 2^k.
Elements(f) == {Element(f, v) : v \in 0 .. (order(f) - 1)}

\* One instance is constructed, then either one product is taken, or one
\* inverse is taken and multiplied back: x * inverse(x).
FieldInit == PolyIdle /\ FieldIdle /\ MatIdle

FieldNext ==
    \/ \E k \in 1 .. MaxDegree,
          m \in {NoModulus} \cup {Modulus(v) : v \in 0 .. (2 ^ (MaxDegree + 1) - 1)} :
        /\ fields = <<>>
        /\ Construct(k, m)
        /\ UNCHANGED <<polyVars, matVars>>
    \/ /\ ret.op = "construct"
       /\ ret.ok
       /\ \E x \in Elements(1), y \in Elements(1) : Multiply(1, x, y)
       /\ UNCHANGED <<polyVars, matVars>>
    \/ /\ ret.op = "construct"
       /\ ret.ok
       /\ \E x \in Elements(1) : Inverse(1, x)
       /\ UNCHANGED <<polyVars, matVars>>
    \/ /\ ret.op = "inverse"
       /\ ret.ok
       /\ Multiply(1, ret.x, ret.val)
       /\ UNCHANGED <<polyVars, matVars>>

SpecField == FieldInit /\ [][FieldNext]_vars

\* The cache scenario: three live instances of degree 2, made by
\* BinaryFiniteExtensionField(2), BinaryFiniteExtensionField(2) and
\* BinaryFiniteExtensionField(2, modulus=0b101): two distinct instances with
\* the same modulus, and one of the same degree with another modulus.
CacheFields ==
    <<[degree |-> 2, modulus |-> initModulus(2, NoModulus)],
      [degree |-> 2, modulus |-> initModulus(2, NoModulus)],
      [degree |-> 2, modulus |-> initModulus(2, Modulus(5))]>>

\* The operands of the scenario: X and X + 1 as elements of each instance.
CacheElems == {Element(g, v) : g \in 1 .. Len(CacheFields), v \in {2, 3}}

CacheInit ==
    /\ PolyIdle
    /\ MatIdle
    /\ fields = CacheFields
    /\ mulCache = <<>>
    /\ invCache = <<>>
    /\ logCache = <<>>
    /\ ret = [op |-> "construct", ok |-> TRUE]
    /\ ncalls = 0

\* Any instance is called with any operands, its own or another instance's
\* (the two operands of a product come from one instance, as in x * y).
CacheNext ==
    \/ /\ ncalls < MaxCalls
       /\ \E f \in 1 .. Len(fields), x \in CacheElems, y \in CacheElems :
             /\ x.field = y.field
             /\ Multiply(f, x, y)
       /\ UNCHANGED <<polyVars, matVars>>
    \/ /\ ncalls < MaxCalls
       /\ \E f \in 1 .. Len(fields), x \in CacheElems : Inverse(f, x)
       /\ UNCHANGED <<polyVars, matVars>>
    \/ /\ ncalls < MaxCalls
       /\ \E f \in 1 .. Len(fields), x \in CacheElems : Logarithm(f, x)
       /\ UNCHANGED <<polyVars, matVars>>

SpecCache == CacheInit /\ [][CacheNext]_vars

\* ------------------------------------------------------------------ claims

GF16 == [degree |-> 4, modulus |-> PRIMITIVE_POLYNOMIALS[4]]

\* C3: in GF(2^4) with the default modulus 0b10011, every product of two of
\* the 16 elements has a value in 0..15, and for every nonzero x, inverse(x)
\* returns an element of value in 0..15 with multiply(x, inverse(x)) = 1.
C3_GF16Closure ==
    (Len(fields) = 1 /\ fields[1] = GF16) =>
        /\ (ret.op = "multiply") => ret.val.value \in 0 .. 15
        /\ (ret.op = "inverse" /\ ret.x.value # 0) =>
              (ret.ok /\ ret.val.value \in 0 .. 15)
        /\ (ret.op = "multiply" /\ invKey(ret.f, ret.x) \in DOMAIN invCache) =>
              /\ ret.y = invCache[invKey(ret.f, ret.x)].val
              /\ ret.val.value = 1

\* In GF(16), x * inverse(x) was taken for an x whose inverse is neither x
\* nor 1, and the product needed a reduction.
C3_Witness ==
    /\ Len(fields) = 1
    /\ fields[1] = GF16
    /\ ret.op = "multiply"
    /\ invKey(ret.f, ret.x) \in DOMAIN invCache
    /\ ret.x.value > 1
    /\ ret.y.value # ret.x.value
    /\ mul(ret.x.value, ret.y.value) > 15
    /\ ret.val.value = 1

\* x has a multiplicative inverse modulo the modulus of field f.
HasInverse(f, x) ==
    \E y \in 0 .. (order(f) - 1) :
        modulo(mul(x.value, y), fields[f].modulus) = 1

\* C4: for every field, with an irreducible or a reducible modulus, and every
\* element x of value < 2^k, inverse(x) fails with the division-by-zero error
\* exactly when x has no multiplicative inverse modulo the modulus; otherwise
\* it returns y with multiply(x, y) = 1.
C4_InverseFailsExactly ==
    (ret.op = "inverse") =>
        /\ ret.ok <=> HasInverse(ret.f, ret.x)
        /\ ~ret.ok => ret.err = "ZeroDivisionError"
        /\ ret.ok => multiplyRaw(ret.f, ret.x, ret.val).value = 1

\* inverse failed on a nonzero element: a zero-divisor of a reducible modulus.
C4_Witness ==
    /\ ret.op = "inverse"
    /\ ~ret.ok
    /\ ret.x.value # 0
    /\ ret.err = "ZeroDivisionError"

\* C10: the memoization of multiply, inverse and logarithm is scoped to one
\* field instance: whatever calls came before, on whatever instances and with
\* operands of whatever instance, a call returns what the unmemoized body
\* returns under the called instance's modulus, and an entry stored by a call
\* on one instance is never returned for a call on another.
C10_MemoPerInstance ==
    /\ (ret.op = "multiply") =>
          /\ ret.val = multiplyRaw(ret.f, ret.x, ret.y)
          /\ ret.by = ret.f
    /\ (ret.op = "inverse") =>
          /\ ret.ok = inverseRaw(ret.f, ret.x).ok
          /\ ret.ok => ret.val = inverseRaw(ret.f, ret.x).val
          /\ ret.by = ret.f
    /\ (ret.op = "logarithm") =>
          /\ ret.val = logarithmRaw(<<>>, ret.f, ret.x).val
          /\ ret.by = ret.f

\* A call answered from the cache with operands made by another instance
\* than the called one: they compare equal to the operands of the call that
\* stored the entry.
C10_Witness ==
    /\ ret.op = "multiply"
    /\ ret.hit
    /\ ret.x.field # ret.f
    /\ ret.val.value > 1

\* ------------------------------------------------ linear algebra modulo 2

\* Matrices have 1 .. MaxRows rows and 1 .. MaxCols columns.
MaxRows == 3

MaxCols == 3

\* A matrix is the sequence of its rows; rows and columns are counted from 1
\* (numpy counts from 0).  A call's outcome is Ok(value) or Raise(exception).
Ok(v) == [ok |-> TRUE, val |-> v]

Raise(e) == [ok |-> FALSE, err |-> e]

nrows(A) == Len(A)

ncols(A) == Len(A[1])

\* np.eye(k)
eye(k) == [i \in 1 .. k |-> [j \in 1 .. k |-> IF i = j THEN 1 ELSE 0]]

column(A, j) == [i \in 1 .. nrows(A) |-> A[i][j]]

RECURSIVE sumTo(_, _)
sumTo(f, n) == IF n = 0 THEN 0 ELSE f[n] + sumTo(f, n - 1)

\* np.dot(A, B) % 2 for A of shape (a, m) and B of shape (m, b)
dotMod2(A, B, m, b) ==
    [i \in 1 .. Len(A) |->
        [j \in 1 .. b |-> sumTo([l \in 1 .. m |-> A[i][l] * B[l][j]], m) % 2]]

\* rref.pivot, lines 461-466: whether the row has a nonzero entry (the code
\* returns None when it has none) ...
hasPivot(row) == \E j \in 1 .. Len(row) : row[j] # 0

\* ... and the column of the first one
pivot(row) == CHOOSE j \in 1 .. Len(row) : row[j] # 0 /\ \A l \in 1 .. (j - 1) : row[l] = 0

\* np.argmin(possible_pivots) + r, line 471, when every row r.. has a pivot:
\* the first row whose pivot column is the least
argminPivot(A, r) ==
    CHOOSE p \in r .. nrows(A) :
        /\ \A q \in r .. nrows(A) : pivot(A[p]) <= pivot(A[q])
        /\ \A q \in r .. (p - 1) : pivot(A[q]) > pivot(A[p])

\* line 474: M_rref[[r, p]] = M_rref[[p, r]]
swapRows(A, r, p) ==
    [i \in 1 .. nrows(A) |-> IF i = r THEN A[p] ELSE IF i = p THEN A[r] ELSE A[i]]

\* lines 480-482: the pivot row is added to every other row with a nonzero
\* entry in column f (row r itself does not change, so the order of the
\* rows in the loop does not matter)
eliminate(A, r, f) ==
    [i \in 1 .. nrows(A) |->
        IF i # r /\ A[i][f] # 0
        THEN [j \in 1 .. ncols(A) |-> (A[i][j] + A[r][j]) % 2]
        ELSE A[i]]

\* rref, lines 468-484, from row r on.  When a row among r.. has no nonzero
\* entry its pivot is None:
\*  - np.argmin over two or more entries with a None among them compares
\*    None with an int (or with None) and raises TypeError;
\*  - over the single entry None (r is the last row) it answers 0; then f is
\*    None, and M_rref[i, None] != 0 is an array of one row: `if` on it raises
\*    ValueError when it has two or more entries, and with a single column it
\*    is that entry, and adding the all-zero row r changes nothing.
RECURSIVE rrefFrom(_, _)
rrefFrom(A, r) ==
    IF r > nrows(A) THEN Ok(A)
    ELSE IF \A q \in r .. nrows(A) : hasPivot(A[q])
    THEN LET B == swapRows(A, r, argminPivot(A, r))
         IN  rrefFrom(eliminate(B, r, pivot(B[r])), r + 1)
    ELSE IF r < nrows(A) THEN Raise("TypeError")
    ELSE IF nrows(A) >= 2 /\ ncols(A) >= 2 THEN Raise("ValueError")
    ELSE rrefFrom(A, r + 1)

\* rref(M), lines 451-484
rref(A) == rrefFrom(A, 1)

\* xrref, lines 514-519: the columns of the pivots; M_rref[:, j] with j past
\* the last column raises IndexError
RECURSIVE pivotScan(_, _, _)
pivotScan(Mr, pivots, j) ==
    IF Len(pivots) >= nrows(Mr) THEN Ok(pivots)
    ELSE IF j > ncols(Mr) THEN Raise("IndexError")
    ELSE IF column(Mr, j) = eye(nrows(Mr))[Len(pivots) + 1]
    THEN pivotScan(Mr, Append(pivots, j), j + 1)
    ELSE pivotScan(Mr, pivots, j + 1)

\* xrref(M), lines 489-521: Ok([P, M_rref, pivots]) or the exception
xrref(A) ==
    LET k == nrows(A)
        n == ncols(A)
        augmented_M == [i \in 1 .. k |-> A[i] \o eye(k)[i]]
        R == rref(augmented_M)
    IN  IF ~R.ok THEN R
        ELSE LET M_rref == [i \in 1 .. k |-> SubSeq(R.val[i], 1, n)]
                 P == [i \in 1 .. k |-> SubSeq(R.val[i], n + 1, n + k)]
                 pv == pivotScan(M_rref, <<>>, 1)
             IN  IF ~pv.ok THEN pv
                 ELSE Ok([P |-> P, M_rref |-> M_rref, pivots |-> pv.val])

\* line 529: M_rref_ri[s_indices] = np.eye(k) on an n x k zero matrix
placeRows(n, k, s_indices) ==
    [j \in 1 .. n |->
        IF \E i \in 1 .. k : s_indices[i] = j
        THEN eye(k)[CHOOSE i \in 1 .. k : s_indices[i] = j]
        ELSE [l \in 1 .. k |-> 0]]

right_inverseNoP(A) ==
    LET X == xrref(A)
    IN  IF ~X.ok THEN X ELSE Ok(placeRows(ncols(A), nrows(A), X.val.pivots))

\* right_inverse(M), lines 524-531
right_inverse(A) ==
    LET k == nrows(A)
        n == ncols(A)
        X == xrref(A)
    IN  IF ~X.ok THEN X
        ELSE Ok(dotMod2(placeRows(n, k, X.val.pivots), X.val.P, k, k))

\* line 540: np.setdiff1d(np.arange(n), s_indices), ascending
RECURSIVE setdiff(_, _, _)
setdiff(j, n, s_indices) ==
    IF j > n THEN <<>>
    ELSE IF \E i \in 1 .. Len(s_indices) : s_indices[i] = j
    THEN setdiff(j + 1, n, s_indices)
    ELSE <<j>> \o setdiff(j + 1, n, s_indices)

indexOf(seq, v) == CHOOSE i \in 1 .. Len(seq) : seq[i] = v

null_matrixZeroPivots(A) ==
    LET k == nrows(A)
        n == ncols(A)
        X == xrref(A)
    IN  IF ~X.ok THEN X
        ELSE LET p_indices == setdiff(1, n, X.val.pivots)
             IN  Ok([j \in 1 .. (n - k) |->
                    [c \in 1 .. n |->
                        IF \E i \in 1 .. (n - k) : p_indices[i] = c
                        THEN eye(n - k)[j][indexOf(p_indices, c)]
                        ELSE 0]])

\* null_matrix(M), lines 534-543.  xrref runs first (line 538); every column
\* of the np.empty matrix is then written, by line 541 or by line 542.
null_matrix(A) ==
    LET k == nrows(A)
        n == ncols(A)
        X == xrref(A)
    IN  IF ~X.ok THEN X
        ELSE LET p_indices == setdiff(1, n, X.val.pivots)
             IN  Ok([j \in 1 .. (n - k) |->
                    [c \in 1 .. n |->
                        IF \E i \in 1 .. (n - k) : p_indices[i] = c
                        THEN eye(n - k)[j][indexOf(p_indices, c)]
                        ELSE X.val.M_rref[indexOf(X.val.pivots, c)][p_indices[j]]]])

\* -------------------------------------------- linear algebra: the actions

Matrices ==
    UNION {[1 .. k -> [1 .. n -> {0, 1}]] : k \in 1 .. MaxRows, n \in 1 .. MaxCols}

MatInit ==
    /\ PolyIdle
    /\ FieldIdle
    /\ M \in Matrices
    /\ out = [op |-> "none"]

CallRref ==
    /\ out.op = "none"
    /\ out' = [op |-> "rref", res |-> rref(M)]
    /\ UNCHANGED M

CallXrref ==
    /\ out.op = "none"
    /\ out' = [op |-> "xrref", res |-> xrref(M)]
    /\ UNCHANGED M

CallRightInverse ==
    /\ out.op = "none"
    /\ out' = [op |-> "right_inverse", res |-> right_inverse(M)]
    /\ UNCHANGED M

CallNullMatrix ==
    /\ out.op = "none"
    /\ out' = [op |-> "null_matrix", res |-> null_matrix(M)]
    /\ UNCHANGED M

MatNext ==
    \/ CallRref /\ UNCHANGED <<polyVars, fieldVars>>
    \/ CallXrref /\ UNCHANGED <<polyVars, fieldVars>>
    \/ CallRightInverse /\ UNCHANGED <<polyVars, fieldVars>>
    \/ CallNullMatrix /\ UNCHANGED <<polyVars, fieldVars>>

SpecMat == MatInit /\ [][MatNext]_vars

\* ------------------------------------------------------------------ claims

\* The XOR of the rows of A picked by the set S of row numbers.
RECURSIVE xorRows(_, _, _)
xorRows(A, S, n) ==
    IF S = {} THEN [j \in 1 .. n |-> 0]
    ELSE LET i == CHOOSE i \in S : TRUE
             rest == xorRows(A, S \ {i}, n)
         IN  [j \in 1 .. n |-> (A[i][j] + rest[j]) % 2]

\* The rows of A are linearly independent over GF(2): no nonempty set of
\* rows adds up to zero.
RowsIndependent(A, n) ==
    \A S \in SUBSET (1 .. Len(A)) :
        S # {} => xorRows(A, S, n) # [j \in 1 .. n |-> 0]

FullRowRank(A) == RowsIndependent(A, ncols(A))

transpose(A, n) == [j \in 1 .. n |-> [i \in 1 .. Len(A) |-> A[i][j]]]

\* C5: for every binary matrix M, full-row-rank or rank-deficient, xrref(M)
\* returns (P, M_rref, pivots) with P.M mod 2 = rref(M) and M_rref = rref(M).
C5_XrrefTransform ==
    (out.op = "xrref") =>
        /\ out.res.ok
        /\ rref(M).ok
        /\ dotMod2(out.res.val.P, M, nrows(M), ncols(M)) = rref(M).val
        /\ out.res.val.M_rref = rref(M).val

\* C6: for every full-row-rank k x n matrix M, right_inverse(M) is an n x k
\* binary matrix R with M.R mod 2 the k x k identity.
C6_RightInverse ==
    (out.op = "right_inverse" /\ FullRowRank(M)) =>
        /\ out.res.ok
        /\ Len(out.res.val) = ncols(M)
        /\ \A j \in 1 .. ncols(M) : out.res.val[j] \in [1 .. nrows(M) -> {0, 1}]
        /\ dotMod2(M, out.res.val, ncols(M), nrows(M)) = eye(nrows(M))

\* A full-row-rank matrix with more columns than rows that is not in reduced
\* form, so that the transform P is not the identity.
C6_Witness ==
    /\ out.op = "right_inverse"
    /\ FullRowRank(M)
    /\ nrows(M) >= 2
    /\ ncols(M) > nrows(M)
    /\ rref(M).val # M
    /\ out.res.ok
    /\ dotMod2(M, out.res.val, ncols(M), nrows(M)) = eye(nrows(M))

\* C7: for every full-row-rank k x n matrix M, null_matrix(M) is an
\* (n-k) x n binary matrix N with M.N^T mod 2 the zero k x (n-k) matrix and
\* N of rank n-k over GF(2).
C7_NullMatrix ==
    (out.op = "null_matrix" /\ FullRowRank(M)) =>
        /\ out.res.ok
        /\ Len(out.res.val) = ncols(M) - nrows(M)
        /\ \A j \in 1 .. Len(out.res.val) : out.res.val[j] \in [1 .. ncols(M) -> {0, 1}]
        /\ dotMod2(M, transpose(out.res.val, ncols(M)), ncols(M), Len(out.res.val))
              = [i \in 1 .. nrows(M) |-> [j \in 1 .. Len(out.res.val) |-> 0]]
        /\ RowsIndependent(out.res.val, ncols(M))

\* A full-row-rank matrix with a nonempty null space whose basis has a
\* nonzero entry in a pivot column.
C7_Witness ==
    /\ out.op = "null_matrix"
    /\ FullRowRank(M)
    /\ nrows(M) >= 2
    /\ out.res.ok
    /\ Len(out.res.val) >= 1
    /\ \E c \in 1 .. ncols(M) : column(M, c) # column(rref(M).val, c)
    /\ \E j \in 1 .. Len(out.res.val) :
          Cardinality({c \in 1 .. ncols(M) : out.res.val[j][c] = 1}) >= 2

\* The rows of A with a nonzero entry.
nonzeroRows(A) == {i \in 1 .. nrows(A) : hasPivot(A[i])}

\* C8: for every binary matrix M, all-zero rows included, rref(M) completes,
\* rref(rref(M)) = rref(M), the all-zero rows come after every row with a
\* pivot, and each pivot column of rref(M), restricted to the nonzero rows, is
\* a standard basis vector.
C8_RrefIdempotent ==
    (out.op = "rref") =>
        /\ out.res.ok
        /\ rref(out.res.val) = out.res
        /\ \A i \in nonzeroRows(out.res.val) :
              /\ \A q \in 1 .. (i - 1) : q \in nonzeroRows(out.res.val)
              /\ \A q \in nonzeroRows(out.res.val) :
                    out.res.val[q][pivot(out.res.val[i])] = IF q = i THEN 1 ELSE 0

====
